---------------------------- MODULE Spec2Model ----------------------------
(***************************************************************************)
(* RevenueEdge: the record identity resolution and join pipeline.          *)
(*                                                                         *)
(*   scripts/02_clean_goodreads.py     catalog cleaner                     *)
(*   scripts/03_clean_bookcrossing.py  rating aggregator, cohort classifier*)
(*   scripts/04_create_database.py     relational store, join and scoring  *)
(*                                                                         *)
(* Conventions.  A Python str is a sequence of one-character strings.      *)
(* An optional value (None, NaN, a missing CSV cell) is the empty set and  *)
(* a present value x is {x}: a comparison with NaN is then false the way   *)
(* pandas has it (\E v \in x : v >= 0).  Ratings, counts, pages, ages and  *)
(* scores are integers.  A DataFrame is a sequence of records; the field   *)
(* idx of a row is its pandas index label (the position in the raw file).  *)
(***************************************************************************)
EXTENDS Integers, Sequences, FiniteSets, TLC

VARIABLES
    pc,        \* the step of the script (or of the function under study) reached
    input,     \* the argument handed to a row-level function
    output,    \* what that function returned
    goodreads, \* 02: the raw catalog DataFrame (data/raw/books.csv as loaded)
    goodreads_final,        \* 02: the cleaned catalog table written to disk
    bc_ratings,             \* 03: the raw rating events (BX-Book-Ratings.csv)
    bc_aggregated_filtered, \* 03: the rating aggregate table written to disk
    master_dataset,         \* 04: the joined, scored table (master_dataset.csv)
    bc_users,               \* 03: the raw actors (BX-Users.csv)
    bc_users_clean,         \* 03: the cleaned actor table written to disk
    demographic_insights,   \* 03: the cohort aggregate table written to disk
    store,                  \* 04: the tables of revenueedge.db
    success_count,          \* run_all: the steps completed
    raw_files,              \* the files present in data/raw, if there is one
    runs                    \* how many times run_all.py has been started here

vars == <<pc, input, output, goodreads, goodreads_final, bc_ratings,
          bc_aggregated_filtered, master_dataset, bc_users, bc_users_clean,
          demographic_insights, store, success_count, raw_files, runs>>

None == {}
Some(x) == {x}
Val(o) == CHOOSE v \in o : TRUE

Min(S) == CHOOSE m \in S : \A x \in S : m <= x
Max(S) == CHOOSE m \in S : \A x \in S : m >= x

(***************************************************************************)
(* Strings                                                                 *)
(***************************************************************************)
DIGITS == {"0", "1", "2", "3", "4", "5", "6", "7", "8", "9"}
LOWER == <<"a", "b", "c", "d", "e", "f", "g", "h", "i", "j", "k", "l", "m",
           "n", "o", "p", "q", "r", "s", "t", "u", "v", "w", "x", "y", "z">>
UPPER == <<"A", "B", "C", "D", "E", "F", "G", "H", "I", "J", "K", "L", "M",
           "N", "O", "P", "Q", "R", "S", "T", "U", "V", "W", "X", "Y", "Z">>
UPPERSET == {UPPER[i] : i \in 1..26}
\* the regular-expression class \s, as far as the model's alphabet has it
WHITESPACE == {" ", "\t"}
\* the class [A-Z0-9]
AZ09 == UPPERSET \cup DIGITS

upper_char(c) ==
    IF \E i \in 1..26 : LOWER[i] = c
    THEN UPPER[CHOOSE i \in 1..26 : LOWER[i] = c]
    ELSE c

\* str.upper()
upper(s) == [i \in 1..Len(s) |-> upper_char(s[i])]

\* str.strip()
strip(s) ==
    LET keep == {i \in 1..Len(s) : s[i] \notin WHITESPACE}
    IN IF keep = {} THEN <<>> ELSE SubSeq(s, Min(keep), Max(keep))

\* re.sub(r'[-\s]', '', s)
sub_hyphen_space(s) == SelectSeq(s, LAMBDA c : c \notin (WHITESPACE \cup {"-"}))

\* re.sub(r'[^A-Z0-9]', '', s)
sub_non_alnum(s) == SelectSeq(s, LAMBDA c : c \in AZ09)

\* every concatenation of at most n members of S
RECURSIVE Concats(_, _)
Concats(S, n) ==
    IF n = 0 THEN {<<>>}
    ELSE LET P == Concats(S, n - 1) IN P \cup {p \o c : p \in P, c \in S}

(***************************************************************************)
(* Identity Normalizer: clean_isbn                                         *)
(***************************************************************************)
\* len(isbn_clean) in [10, 13]
ISBN_LENGTHS == {10, 13}

\* a mutant: the uppercasing forgotten
clean_isbn_no_upper(isbn) ==
    IF isbn = None THEN None
    ELSE LET isbn_str == strip(Val(isbn))
             isbn_clean == sub_non_alnum(sub_hyphen_space(isbn_str))
         IN IF Len(isbn_clean) \in ISBN_LENGTHS THEN Some(isbn_clean) ELSE None

\* 02_clean_goodreads.py, clean_isbn
clean_isbn(isbn) ==
    IF isbn = None THEN None
    ELSE LET isbn_str == upper(strip(Val(isbn)))
             isbn_clean == sub_non_alnum(sub_hyphen_space(isbn_str))
         IN IF Len(isbn_clean) \in ISBN_LENGTHS THEN Some(isbn_clean) ELSE None

\* 03_clean_bookcrossing.py, clean_isbn
bc_clean_isbn(isbn) ==
    IF isbn = None THEN None
    ELSE LET isbn_str == upper(strip(Val(isbn)))
             isbn_clean == sub_non_alnum(sub_hyphen_space(isbn_str))
         IN IF Len(isbn_clean) \in ISBN_LENGTHS THEN Some(isbn_clean) ELSE None

(***************************************************************************)
(* clean_isbn on its own: a raw identifier is drawn, then either script's  *)
(* clean_isbn is applied to it.                                            *)
(***************************************************************************)
MaxIsbnChunks == 4

IsbnChunks ==
    { <<"0", "4", "3", "9", "7", "0", "8", "1", "8">>,
      <<"9", "7", "8">>, <<"4">>, <<"x">>, <<"X">>,
      <<"-">>, <<" ">>, <<".">> }

RawIdentifiers ==
    {None} \cup {Some(s) : s \in Concats(IsbnChunks, MaxIsbnChunks)}

\* the raw datasets of data/raw
RAW_FILES == {"books.csv", "BX-Books.csv", "BX-Book-Ratings.csv", "BX-Users.csv"}

\* the first run in a working directory: no processed file, no database,
\* no step of run_all completed
FirstRun ==
    /\ goodreads_final = None
    /\ bc_aggregated_filtered = None
    /\ master_dataset = None
    /\ bc_users_clean = None
    /\ demographic_insights = None
    /\ store = None
    /\ success_count = 0
    /\ runs = 1

\* a new working directory with every raw file
NewDirectory == FirstRun /\ raw_files = Some(RAW_FILES)

\* the raw file is there to be read
Exists(file) == \E files \in raw_files : file \in files

NoTables ==
    /\ goodreads = <<>>
    /\ bc_ratings = <<>>
    /\ bc_users = <<>>
    /\ NewDirectory

run_state == <<store, success_count, raw_files, runs>>

tables == <<goodreads, goodreads_final, bc_ratings, bc_aggregated_filtered,
            master_dataset, bc_users, bc_users_clean, demographic_insights,
            run_state>>

InitIsbn ==
    /\ pc = "raw_identifier"
    /\ input \in RawIdentifiers
    /\ output = None
    /\ NoTables

CleanIsbnGoodreads ==
    /\ pc = "raw_identifier"
    /\ output' = clean_isbn(input)
    /\ pc' = "clean_isbn_02"
    /\ UNCHANGED <<input, tables>>

CleanIsbnBookCrossing ==
    /\ pc = "raw_identifier"
    /\ output' = bc_clean_isbn(input)
    /\ pc' = "clean_isbn_03"
    /\ UNCHANGED <<input, tables>>

NextIsbn == CleanIsbnGoodreads \/ CleanIsbnBookCrossing

SpecIsbn == InitIsbn /\ [][NextIsbn]_vars

\* the characters of s, uppercased, left to right, that are in A-Z or 0-9
RECURSIVE UpperKept(_)
UpperKept(s) ==
    IF s = <<>> THEN <<>>
    ELSE LET c == upper_char(Head(s))
         IN (IF c \in AZ09 THEN <<c>> ELSE <<>>) \o UpperKept(Tail(s))

IsbnReturned == pc \in {"clean_isbn_02", "clean_isbn_03"}

\* C1: clean_isbn returns the input uppercased with every character outside
\* A-Z and 0-9 removed when that has length 10 or 13, and None for every
\* other length and for a missing input; a returned string has length 10 or
\* 13 and holds only A-Z and 0-9.
C1_CleanIsbnContract ==
    IsbnReturned =>
        /\ input = None => output = None
        /\ input # None =>
             LET want == UpperKept(Val(input))
             IN IF Len(want) = 10 \/ Len(want) = 13
                THEN output = Some(want)
                ELSE output = None
        /\ \A r \in output :
             /\ Len(r) = 10 \/ Len(r) = 13
             /\ \A i \in 1..Len(r) : r[i] \in AZ09

\* a 10-character identifier came out of an input that carried a leading
\* blank, lower case and a hyphen
C1_Witness ==
    /\ IsbnReturned
    /\ input # None
    /\ output # None
    /\ \E r \in output : Len(r) = 10 /\ \E i \in 1..Len(r) : r[i] = "X"
    /\ \E s \in input :
         /\ Len(s) > 10
         /\ s[1] = " "
         /\ \E i \in 1..Len(s) : s[i] = "x"
         /\ \E i \in 1..Len(s) : s[i] = "-"

(***************************************************************************)
(* Identity Normalizer: the identifier choice and create_composite_key     *)
(***************************************************************************)
\* s[:n]
Take(s, n) == SubSeq(s, 1, IF Len(s) < n THEN Len(s) ELSE n)

\* s.split(',')[0]
split_comma_first(s) ==
    LET commas == {i \in 1..Len(s) : s[i] = ","}
    IN IF commas = {} THEN s ELSE SubSeq(s, 1, Min(commas) - 1)

\* title_clean[:30], author_clean[:20]
TITLE_CHARS == 30
AUTHOR_CHARS == 20

COMP_PREFIX == <<"C", "O", "M", "P", "_">>

\* goodreads['ISBN'] = goodreads['isbn13_clean'].fillna(goodreads['isbn_clean'])
select_isbn(row) ==
    LET isbn_clean == clean_isbn(row.isbn)
        isbn13_clean == clean_isbn(row.isbn13)
    IN IF isbn13_clean # None THEN isbn13_clean ELSE isbn_clean

\* a mutant: the title compared as typed, not uppercased
create_composite_key_title_as_typed(row) ==
    IF row.ISBN # None THEN row.ISBN
    ELSE LET title == IF row.title # None THEN strip(Val(row.title)) ELSE <<>>
             author == IF row.authors # None
                       THEN upper(strip(Val(row.authors))) ELSE <<>>
         IN IF title # <<>> /\ author # <<>>
            THEN LET title_clean == sub_non_alnum(title)
                     author_clean == sub_non_alnum(split_comma_first(author))
                 IN Some(COMP_PREFIX \o Take(title_clean, TITLE_CHARS) \o <<"_">>
                         \o Take(author_clean, AUTHOR_CHARS))
            ELSE None

\* create_composite_key(row), row carrying the column ISBN
create_composite_key(row) ==
    IF row.ISBN # None THEN row.ISBN
    ELSE LET title == IF row.title # None
                      THEN upper(strip(Val(row.title))) ELSE <<>>
             author == IF row.authors # None
                       THEN upper(strip(Val(row.authors))) ELSE <<>>
         IN IF title # <<>> /\ author # <<>>
            THEN LET title_clean == sub_non_alnum(title)
                     author_clean == sub_non_alnum(split_comma_first(author))
                 IN Some(COMP_PREFIX \o Take(title_clean, TITLE_CHARS) \o <<"_">>
                         \o Take(author_clean, AUTHOR_CHARS))
            ELSE None

\* lines 48-82: the columns ISBN and book_key added to every row
with_book_key(df) ==
    [i \in 1..Len(df) |->
        LET with_isbn == df[i] @@ [ISBN |-> select_isbn(df[i])]
        IN with_isbn @@ [book_key |-> create_composite_key(with_isbn)]]

\* goodreads[goodreads['book_key'].notna()]
drop_without_key(df) == SelectSeq(df, LAMBDA r : r.book_key # None)

(***************************************************************************)
(* Catalog Cleaner: the numeric columns                                    *)
(*                                                                         *)
(* A raw numeric cell is [kind, value]: kind "number" for text that parses *)
(* to value, "text" for text that does not parse, "missing" for an empty   *)
(* cell.                                                                   *)
(***************************************************************************)
Number(n) == [kind |-> "number", value |-> n]
Unparseable == [kind |-> "text", value |-> 0]
Missing == [kind |-> "missing", value |-> 0]

\* pd.to_numeric(cell, errors='coerce')
to_numeric(cell) == IF cell.kind = "number" THEN Some(cell.value) ELSE None

\* (average_rating >= 0) & (average_rating <= 5)
RATING_LOW == 0
RATING_HIGH == 5
\* (num_pages < 10) | (num_pages > 2000)
PAGES_LOW == 10
PAGES_HIGH == 2000

\* a mutant: the rating filter that keeps every rating up to 5, NaN dropped
rating_in_range_no_floor(r) ==
    \E v \in r.average_rating : v <= RATING_HIGH

\* the row mask of lines 98-101; a comparison with NaN is False
rating_in_range(r) ==
    \E v \in r.average_rating : v >= RATING_LOW /\ v <= RATING_HIGH

\* lines 93-101
clean_average_rating(df) ==
    SelectSeq([i \in 1..Len(df) |->
                  [df[i] EXCEPT !.average_rating = to_numeric(@)]],
              rating_in_range)

\* lines 104-108: to_numeric(...).fillna(0).astype(int)
clean_ratings_count(df) ==
    [i \in 1..Len(df) |->
        [df[i] EXCEPT !.ratings_count =
            IF to_numeric(@) = None THEN 0 ELSE Val(to_numeric(@))]]

\* lines 111-120
clean_num_pages(df) ==
    [i \in 1..Len(df) |->
        [df[i] EXCEPT !.num_pages =
            LET pages == to_numeric(@)
            IN IF \E v \in pages : v < PAGES_LOW \/ v > PAGES_HIGH
               THEN None ELSE pages]]

(***************************************************************************)
(* Catalog Cleaner: the publisher                                          *)
(***************************************************************************)
\* var in pub
Contains(pub, var) ==
    \E i \in 1..(Len(pub) - Len(var) + 1) : SubSeq(pub, i, i + Len(var) - 1) = var

\* the dict uk_publishers, in insertion order
uk_publishers ==
    <<
       [standard_name |-> <<"P", "E", "N", "G", "U", "I", "N">>,
        variations |-> <<<<"P", "E", "N", "G", "U", "I", "N">>,
                        <<"P", "E", "N", "G", "U", "I", "N", " ", "B", "O", "O", "K", "S">>,
                        <<"P", "E", "N", "G", "U", "I", "N", " ", "U", "K">>,
                        <<"P", "E", "N", "G", "U", "I", "N", " ", "R", "A", "N", "D", "O", "M", " ", "H", "O", "U", "S", "E">>>>],
       [standard_name |-> <<"B", "L", "O", "O", "M", "S", "B", "U", "R", "Y">>,
        variations |-> <<<<"B", "L", "O", "O", "M", "S", "B", "U", "R", "Y">>,
                        <<"B", "L", "O", "O", "M", "S", "B", "U", "R", "Y", " ", "P", "U", "B", "L", "I", "S", "H", "I", "N", "G">>>>],
       [standard_name |-> <<"H", "A", "R", "P", "E", "R", "C", "O", "L", "L", "I", "N", "S">>,
        variations |-> <<<<"H", "A", "R", "P", "E", "R", "C", "O", "L", "L", "I", "N", "S">>,
                        <<"H", "A", "R", "P", "E", "R", " ", "C", "O", "L", "L", "I", "N", "S">>,
                        <<"H", "A", "R", "P", "E", "R">>>>],
       [standard_name |-> <<"M", "A", "C", "M", "I", "L", "L", "A", "N">>,
        variations |-> <<<<"M", "A", "C", "M", "I", "L", "L", "A", "N">>,
                        <<"P", "A", "N", " ", "M", "A", "C", "M", "I", "L", "L", "A", "N">>,
                        <<"M", "A", "C", "M", "I", "L", "L", "A", "N", " ", "U", "K">>>>],
       [standard_name |-> <<"O", "R", "I", "O", "N">>,
        variations |-> <<<<"O", "R", "I", "O", "N">>,
                        <<"O", "R", "I", "O", "N", " ", "P", "U", "B", "L", "I", "S", "H", "I", "N", "G">>>>],
       [standard_name |-> <<"F", "A", "B", "E", "R">>,
        variations |-> <<<<"F", "A", "B", "E", "R">>,
                        <<"F", "A", "B", "E", "R", " ", "&", " ", "F", "A", "B", "E", "R">>,
                        <<"F", "A", "B", "E", "R", " ", "A", "N", "D", " ", "F", "A", "B", "E", "R">>>>],
       [standard_name |-> <<"R", "A", "N", "D", "O", "M", " ", "H", "O", "U", "S", "E">>,
        variations |-> <<<<"R", "A", "N", "D", "O", "M", " ", "H", "O", "U", "S", "E">>,
                        <<"R", "A", "N", "D", "O", "M", "H", "O", "U", "S", "E">>>>]
    >>

UNKNOWN == <<"U", "n", "k", "n", "o", "w", "n">>

\* any(var in pub for var in variations)
any_variation(pub, variations) ==
    \E j \in 1..Len(variations) : Contains(pub, variations[j])

\* a mutant: the table searched from its last entry
standardize_publisher_last_match(publisher) ==
    IF publisher = None THEN UNKNOWN
    ELSE LET pub == upper(strip(Val(publisher)))
             hits == {k \in 1..Len(uk_publishers) :
                         any_variation(pub, uk_publishers[k].variations)}
         IN IF hits # {} THEN uk_publishers[Max(hits)].standard_name
            ELSE strip(Val(publisher))

\* standardize_publisher(publisher)
standardize_publisher(publisher) ==
    IF publisher = None THEN UNKNOWN
    ELSE LET pub == upper(strip(Val(publisher)))
             hits == {k \in 1..Len(uk_publishers) :
                         any_variation(pub, uk_publishers[k].variations)}
         IN IF hits # {} THEN uk_publishers[Min(hits)].standard_name
            ELSE strip(Val(publisher))

uk_publisher_keywords ==
    <<<<"P", "E", "N", "G", "U", "I", "N">>,
       <<"B", "L", "O", "O", "M", "S", "B", "U", "R", "Y">>,
       <<"H", "A", "R", "P", "E", "R", "C", "O", "L", "L", "I", "N", "S">>,
       <<"M", "A", "C", "M", "I", "L", "L", "A", "N">>,
       <<"O", "R", "I", "O", "N">>,
       <<"F", "A", "B", "E", "R">>,
       <<"C", "A", "N", "O", "N", "G", "A", "T", "E">>,
       <<"H", "A", "C", "H", "E", "T", "T", "E", " ", "U", "K">>>>

\* lambda x: any(keyword in str(x).upper() for keyword in uk_publisher_keywords)
is_uk_publisher(publisher_clean) ==
    \E k \in 1..Len(uk_publisher_keywords) :
        Contains(upper(publisher_clean), uk_publisher_keywords[k])

\* lines 150-166
flag_publishers(df) ==
    [i \in 1..Len(df) |->
        LET publisher_clean == standardize_publisher(df[i].publisher)
        IN df[i] @@ [publisher_clean |-> publisher_clean,
                     is_uk_publisher |-> is_uk_publisher(publisher_clean)]]

(***************************************************************************)
(* Catalog Cleaner: deduplication and the whole script                     *)
(***************************************************************************)
\* the rows of df at the positions K, in order
RowsAt(df, K) ==
    [n \in 1..Cardinality(K) |->
        df[CHOOSE k \in K : Cardinality({x \in K : x < k}) = n - 1]]

\* a mutant: keep='last'
drop_duplicates_keep_last(df) ==
    RowsAt(df, {i \in 1..Len(df) :
                   \A j \in (i + 1)..Len(df) : df[j].book_key # df[i].book_key})

\* df.drop_duplicates(subset=['book_key'], keep='first')
drop_duplicates(df) ==
    RowsAt(df, {i \in 1..Len(df) :
                   \A j \in 1..(i - 1) : df[j].book_key # df[i].book_key})

\* lines 178-202: the columns kept, under their new names
select_columns(df) ==
    [i \in 1..Len(df) |->
        [idx |-> df[i].idx,
         book_key |-> df[i].book_key,
         isbn |-> df[i].ISBN,
         title |-> df[i].title,
         authors |-> df[i].authors,
         goodreads_rating |-> df[i].average_rating,
         goodreads_review_count |-> df[i].ratings_count,
         page_count |-> df[i].num_pages,
         publisher |-> df[i].publisher_clean,
         is_uk_publisher |-> df[i].is_uk_publisher]]

\* 02_clean_goodreads.py from the loaded DataFrame to goodreads_final
clean_goodreads(df) ==
    select_columns(
      drop_duplicates(
        flag_publishers(
          clean_num_pages(
            clean_ratings_count(
              clean_average_rating(
                drop_without_key(
                  with_book_key(df))))))))

(***************************************************************************)
(* The identity key on its own: one raw catalog row is drawn and lines     *)
(* 48-90 of the cleaner are applied to it.                                 *)
(***************************************************************************)
MaxTextChunks == 2

TitleChunks ==
    { <<"D", "u", "n", "e">>,
      <<"A", " ", "T", "a", "l", "e", " ", "o", "f", " ", "T", "w", "o", " ", "C", "i", "t", "i", "e", "s">>,
      <<"!">> }

AuthorChunks ==
    { <<"H", "e", "r", "b", "e", "r", "t">>,
      <<"D", "o", "s", "t", "o", "y", "e", "v", "s", "k", "y">>,
      <<",">>, <<" ">> }

ISBN10 == <<"0", "4", "3", "9", "7", "0", "8", "1", "8", "X">>
ISBN13 == <<"9", "7", "8", "0", "4", "3", "9", "7", "0", "8", "1", "8", "0">>

Optional(S) == {None} \cup {Some(x) : x \in S}

RawRow(idx, isbn, isbn13, title, authors, rating, count, pages, publisher) ==
    [idx |-> idx, isbn |-> isbn, isbn13 |-> isbn13, title |-> title,
     authors |-> authors, average_rating |-> rating, ratings_count |-> count,
     num_pages |-> pages, publisher |-> publisher]

KeyRows ==
    { RawRow(1, isbn, isbn13, title, authors, Number(4), Number(120),
             Number(300), None) :
        isbn \in {None, Some(ISBN10)},
        isbn13 \in {None, Some(<<"9", "7", "8">>)},
        title \in Optional(Concats(TitleChunks, MaxTextChunks)),
        authors \in Optional(Concats(AuthorChunks, MaxTextChunks)) }

InitKey ==
    /\ pc = "raw_row"
    /\ input \in KeyRows
    /\ output = None
    /\ NoTables

AssignBookKey ==
    /\ pc = "raw_row"
    /\ LET keyed == with_book_key(<<input>>)
       IN output' = [ISBN |-> keyed[1].ISBN,
                     book_key |-> keyed[1].book_key,
                     goodreads_clean |-> drop_without_key(keyed)]
    /\ pc' = "keyed"
    /\ UNCHANGED <<input, tables>>

NextKey == AssignBookKey

SpecKey == InitKey /\ [][NextKey]_vars

Text(o) == IF o = None THEN <<>> ELSE Val(o)

\* the title, and the first comma-delimited token of the author list, after
\* uppercasing and stripping what is not A-Z or 0-9
CleanedTitle(row) == UpperKept(Text(row.title))
CleanedPrimaryAuthor(row) == UpperKept(split_comma_first(Text(row.authors)))

Keyed == pc = "keyed"

\* C3: a record with no valid identifier whose title or primary author
\* segment is empty after cleaning gets no identity key and is dropped.
C3_NoKeyWhenPartEmpty ==
    (/\ Keyed
     /\ output.ISBN = None
     /\ CleanedTitle(input) = <<>> \/ CleanedPrimaryAuthor(input) = <<>>)
    => /\ output.book_key = None
       /\ output.goodreads_clean = <<>>

\* Spellings of a text that differ from it in letter case, whitespace or
\* punctuation only: one letter of the other case, one blank or punctuation
\* mark put in (at the start, after the first character, at the end), one
\* taken out.
MARKS == {",", "!", " "}

lower_char(c) ==
    IF \E i \in 1..26 : UPPER[i] = c
    THEN LOWER[CHOOSE i \in 1..26 : UPPER[i] = c]
    ELSE c

OtherCase(c) == IF upper_char(c) # c THEN upper_char(c) ELSE lower_char(c)

Respellings(s) ==
    {[s EXCEPT ![i] = OtherCase(s[i])] : i \in {1, Len(s)} \cap (1..Len(s))}
    \cup {SubSeq(s, 1, i) \o <<m>> \o SubSeq(s, i + 1, Len(s)) :
             i \in {0, 1, Len(s)} \cap (0..Len(s)), m \in MARKS}
    \cup {SubSeq(s, 1, i - 1) \o SubSeq(s, i + 1, Len(s)) :
             i \in {j \in 1..Len(s) : upper_char(s[j]) \notin AZ09}}

\* the records that differ from row in the spelling of the title or of the
\* author list, as above
RespelledRows(row) ==
    {[row EXCEPT !.title = Some(t)] : t \in Respellings(Text(row.title))}
    \cup {[row EXCEPT !.authors = Some(a)] : a \in Respellings(Text(row.authors))}

BookKeyOf(row) == with_book_key(<<row>>)[1].book_key

\* neither None nor blank
HasText(o) == o # None /\ strip(Val(o)) # <<>>

\* C4, as claimed: records without a valid identifier whose titles and
\* author lists differ only in letter case, whitespace or punctuation get
\* the same key (stated for records whose title and primary author segment
\* are not empty after cleaning).
C4_SameKeyForAnyRespelling ==
    (/\ Keyed
     /\ output.ISBN = None
     /\ CleanedTitle(input) # <<>>
     /\ CleanedPrimaryAuthor(input) # <<>>) =>
        \A other \in RespelledRows(input) :
            (CleanedTitle(other) # <<>> /\ CleanedPrimaryAuthor(other) # <<>>)
            => BookKeyOf(other) = output.book_key

\* C4, amended: of two records without a valid identifier that both have a
\* title and an author list that are not blank, whose titles differ only in
\* letter case, whitespace or punctuation and whose primary author segments
\* (the author list up to its first comma) differ only so, both get the same
\* key, which is COMP_<cleaned title, 30 characters at most>_<cleaned
\* primary author segment, 20 characters at most>.
C4_SameKeyForRespelledTitleAndPrimaryAuthor ==
    (Keyed /\ output.ISBN = None /\ HasText(input.title) /\ HasText(input.authors)) =>
        /\ output.book_key =
               Some(COMP_PREFIX \o Take(CleanedTitle(input), 30) \o <<"_">>
                    \o Take(CleanedPrimaryAuthor(input), 20))
        /\ \A other \in RespelledRows(input) :
               (/\ HasText(other.title)
                /\ HasText(other.authors)
                /\ CleanedTitle(other) = CleanedTitle(input)
                /\ CleanedPrimaryAuthor(other) = CleanedPrimaryAuthor(input))
               => BookKeyOf(other) = output.book_key

\* a key was built from a title and an author that were both cut short, and
\* the record has respellings that share it
C4_Witness ==
    /\ Keyed
    /\ output.ISBN = None
    /\ output.book_key # None
    /\ Len(CleanedTitle(input)) > 30
    /\ Len(CleanedPrimaryAuthor(input)) > 20
    /\ Len(Val(output.book_key)) = 5 + 30 + 1 + 20
    /\ \E other \in RespelledRows(input) :
           /\ other.title # input.title
           /\ CleanedTitle(other) = CleanedTitle(input)
           /\ BookKeyOf(other) = output.book_key

(***************************************************************************)
(* The publisher on its own: one raw row is drawn and lines 150-166 of the *)
(* cleaner are applied to it.                                              *)
(***************************************************************************)
MaxPublisherChunks == 2

PublisherChunks ==
    { <<"P", "e", "n", "g", "u", "i", "n">>,
      <<" ", "R", "a", "n", "d", "o", "m", " ", "H", "o", "u", "s", "e">>,
      <<"H", "a", "r", "p", "e", "r">>,
      <<"C", "o", "l", "l", "i", "n", "s">>,
      <<"F", "a", "b", "e", "r">>,
      <<"O", "r", "i", "o", "n">>,
      <<"P", "a", "n", " ", "M", "a", "c", "m", "i", "l", "l", "a", "n">>,
      <<"B", "l", "o", "o", "m", "s", "b", "u", "r", "y">>,
      <<"C", "a", "n", "o", "n", "g", "a", "t", "e">>,
      <<"H", "a", "c", "h", "e", "t", "t", "e", " ", "U", "K">>,
      <<"A", "c", "m", "e", " ", "P", "r", "e", "s", "s">>,
      <<" ">> }

PublisherRows ==
    { RawRow(1, Some(ISBN10), None, Some(<<"D", "u", "n", "e">>), Some(<<"H", "e", "r", "b", "e", "r", "t">>),
             Number(4), Number(120), Number(300), publisher) :
        publisher \in Optional(Concats(PublisherChunks, MaxPublisherChunks)) }

InitPublisher ==
    /\ pc = "raw_publisher"
    /\ input \in PublisherRows
    /\ output = None
    /\ NoTables

StandardizePublisher ==
    /\ pc = "raw_publisher"
    /\ LET flagged == flag_publishers(<<input>>)
       IN output' = [publisher_clean |-> flagged[1].publisher_clean,
                     is_uk_publisher |-> flagged[1].is_uk_publisher]
    /\ pc' = "flagged"
    /\ UNCHANGED <<input, tables>>

NextPublisher == StandardizePublisher

SpecPublisher == InitPublisher /\ [][NextPublisher]_vars

Flagged == pc = "flagged"

\* the canonical names in the order the claim gives them, each with the
\* variants the table lists for it
CanonicalOrder ==
    <<<<"P", "E", "N", "G", "U", "I", "N">>,
      <<"B", "L", "O", "O", "M", "S", "B", "U", "R", "Y">>,
      <<"H", "A", "R", "P", "E", "R", "C", "O", "L", "L", "I", "N", "S">>,
      <<"M", "A", "C", "M", "I", "L", "L", "A", "N">>,
      <<"O", "R", "I", "O", "N">>,
      <<"F", "A", "B", "E", "R">>,
      <<"R", "A", "N", "D", "O", "M", " ", "H", "O", "U", "S", "E">>>>

VariantsOf(name) ==
    LET k == CHOOSE j \in 1..Len(uk_publishers) : uk_publishers[j].standard_name = name
    IN {uk_publishers[k].variations[j] : j \in 1..Len(uk_publishers[k].variations)}

\* text occurs in s, letter case set aside
OccursIgnoringCase(text, s) ==
    \E i \in 1..Len(s) :
        /\ i + Len(text) - 1 <= Len(s)
        /\ upper(SubSeq(s, i, i + Len(text) - 1)) = upper(text)

NameMatches(name, s) == \E v \in VariantsOf(name) : OccursIgnoringCase(v, s)

\* C6: 'Unknown' for a null publisher; otherwise the canonical name of the
\* first entry, in the order PENGUIN, BLOOMSBURY, HARPERCOLLINS, MACMILLAN,
\* ORION, FABER, RANDOM HOUSE, one of whose variants occurs in the publisher
\* case-insensitively; otherwise the publisher trimmed, its case kept.
C6_StandardizePublisherContract ==
    Flagged =>
        IF input.publisher = None THEN output.publisher_clean = UNKNOWN
        ELSE LET s == Val(input.publisher)
                 matching == {k \in 1..Len(CanonicalOrder) : NameMatches(CanonicalOrder[k], s)}
             IN IF matching # {}
                THEN \E k \in matching :
                        /\ \A j \in matching : k <= j
                        /\ output.publisher_clean = CanonicalOrder[k]
                ELSE output.publisher_clean = strip(s)

\* a publisher that the first and the last entry both match was given the
\* first entry's name
C6_Witness ==
    /\ Flagged
    /\ input.publisher # None
    /\ NameMatches(<<"P", "E", "N", "G", "U", "I", "N">>, Val(input.publisher))
    /\ NameMatches(<<"R", "A", "N", "D", "O", "M", " ", "H", "O", "U", "S", "E">>,
                   Val(input.publisher))
    /\ output.publisher_clean = <<"P", "E", "N", "G", "U", "I", "N">>
    /\ Val(input.publisher)[1] = " "

\* C7: every record whose publisher was canonicalized to one of the table's
\* canonical names is flagged, and a record is flagged exactly when its
\* canonical publisher, uppercased, contains one of the keywords.
C7_CanonicalNamesAreFlagged ==
    Flagged =>
        /\ (\E k \in 1..Len(uk_publishers) :
               output.publisher_clean = uk_publishers[k].standard_name)
           => output.is_uk_publisher
        /\ output.is_uk_publisher <=>
               \E k \in 1..Len(uk_publisher_keywords) :
                   Contains(upper(output.publisher_clean), uk_publisher_keywords[k])

(***************************************************************************)
(* The catalog cleaner as a whole: a raw catalog of a few rows is loaded   *)
(* and 02_clean_goodreads.py runs over it.  The numeric columns are        *)
(* cleaned column by column, so the rows vary one column at a time: each   *)
(* row has one of two identities and one of the profiles below.            *)
(***************************************************************************)
MaxRows == 3

\* <<average_rating, ratings_count, num_pages>>
NumericProfiles ==
    { <<Number(5), Number(120), Number(10)>>,
      <<Number(6), Number(120), Number(300)>>,
      <<Number(-1), Number(120), Number(300)>>,
      <<Unparseable, Number(120), Number(300)>>,
      <<Number(0), Unparseable, Number(2000)>>,
      <<Number(4), Number(120), Number(9)>>,
      <<Number(4), Missing, Number(2001)>>,
      <<Number(4), Number(120), Unparseable>> }

CatalogRows ==
    { RawRow(0, isbn, None, Some(<<"D", "u", "n", "e">>), Some(<<"H", "e", "r", "b", "e", "r", "t">>),
             p[1], p[2], p[3], None) :
        isbn \in {None, Some(ISBN10)}, p \in NumericProfiles }

\* the DataFrames of at most n rows drawn from Rows, indexed 1, 2, ...
Frames(Rows, n) ==
    { [i \in 1..Len(f) |-> [f[i] EXCEPT !.idx = i]] :
        f \in Concats({<<r>> : r \in Rows}, n) }

InitCatalog ==
    /\ pc = "02_start"
    /\ input = None
    /\ output = None
    /\ goodreads \in Frames(CatalogRows, MaxRows)
    /\ bc_ratings = <<>>
    /\ bc_users = <<>>
    /\ NewDirectory

\* 02_clean_goodreads.py: without data/raw/books.csv it exits with status 1
CleanGoodreads ==
    /\ pc = "02_start"
    /\ IF Exists("books.csv")
       THEN /\ goodreads_final' = Some(clean_goodreads(goodreads))
            /\ pc' = "02_done"
       ELSE /\ pc' = "02_failed"
            /\ UNCHANGED goodreads_final
    /\ UNCHANGED <<input, output, goodreads, bc_ratings, bc_aggregated_filtered,
                   master_dataset, bc_users, bc_users_clean,
                   demographic_insights, run_state>>

NextCatalog == CleanGoodreads

SpecCatalog == InitCatalog /\ [][NextCatalog]_vars

Cleaned == pc = "02_done"
CleanedTable == Val(goodreads_final)

\* the cleaned row that came from raw row i, if there is one
CleanedFrom(i) == {f \in {CleanedTable[n] : n \in 1..Len(CleanedTable)} : f.idx = i}

ParsedRating(i) == to_numeric(goodreads[i].average_rating)

\* C5: a record that has an identity key is removed only when its parsed
\* rating lies outside [0,5] or it is a later duplicate of a key already
\* seen; an unparseable rating becomes null, an unparseable review count 0,
\* an unparseable or out-of-range page count null, the record being kept.
C5_RemovedOnlyForRangeOrDuplicate ==
    Cleaned =>
        \A i \in 1..Len(goodreads) :
            BookKeyOf(goodreads[i]) # None =>
                /\ CleanedFrom(i) = {} =>
                      \/ \E v \in ParsedRating(i) : v < 0 \/ v > 5
                      \/ \E j \in 1..(i - 1) :
                            BookKeyOf(goodreads[j]) = BookKeyOf(goodreads[i])
                /\ \A f \in CleanedFrom(i) :
                      /\ f.goodreads_rating = ParsedRating(i)
                      /\ f.goodreads_review_count =
                            (IF goodreads[i].ratings_count.kind = "number"
                             THEN goodreads[i].ratings_count.value ELSE 0)
                      /\ f.page_count =
                            (IF /\ goodreads[i].num_pages.kind = "number"
                                /\ goodreads[i].num_pages.value >= 10
                                /\ goodreads[i].num_pages.value <= 2000
                             THEN Some(goodreads[i].num_pages.value) ELSE None)

\* the raw rows that resolve to the identity key k
RowsWithKey(k) == {i \in 1..Len(goodreads) : BookKeyOf(goodreads[i]) = k}

\* C8, as claimed: the row kept for an identity key is the first of the
\* input rows that resolve to that key (stated for inputs whose ratings all
\* parse).
C8_KeptRowIsFirstOfInput ==
    (Cleaned /\ \A i \in 1..Len(goodreads) : ParsedRating(i) # None) =>
        \A n \in 1..Len(CleanedTable) :
            CleanedTable[n].idx = Min(RowsWithKey(CleanedTable[n].book_key))

\* C8, amended: the row kept for an identity key is the first, in input
\* order, of the rows with that key that pass the rating filter (the filter
\* runs before deduplication); every key that has such a row keeps exactly
\* that one.
C8_KeptRowIsFirstThatPassedRatingFilter ==
    Cleaned =>
        LET Passed(k) == {i \in RowsWithKey(k) :
                             \E v \in ParsedRating(i) : v >= 0 /\ v <= 5}
        IN /\ \A n \in 1..Len(CleanedTable) :
                 CleanedTable[n].idx = Min(Passed(CleanedTable[n].book_key))
           /\ \A i \in 1..Len(goodreads) :
                 LET k == BookKeyOf(goodreads[i])
                 IN (k # None /\ Passed(k) # {}) =>
                       Cardinality({n \in 1..Len(CleanedTable) :
                                       CleanedTable[n].book_key = k}) = 1

\* input order [A, B, A']: A and A' share a key and differ in content, both
\* pass the rating filter, and the cleaned table holds A and B
C8_Witness ==
    /\ Cleaned
    /\ Len(goodreads) = 3
    /\ BookKeyOf(goodreads[1]) = BookKeyOf(goodreads[3])
    /\ BookKeyOf(goodreads[1]) # BookKeyOf(goodreads[2])
    /\ goodreads[1].num_pages # goodreads[3].num_pages
    /\ \A i \in 1..3 : \E v \in ParsedRating(i) : v >= 0 /\ v <= 5
    /\ Len(CleanedTable) = 2
    /\ CleanedTable[1].idx = 1
    /\ CleanedTable[2].idx = 2

(***************************************************************************)
(* Cohort Classifier: the age column of bc_users_clean (lines 134-155)     *)
(***************************************************************************)
\* (Age < 10) | (Age > 100)
AGE_LOW == 10
AGE_HIGH == 100

\* a mutant: the youngest realistic age taken for unrealistic
clean_age_excluding_low(cell) ==
    LET age == to_numeric(cell)
    IN IF \E v \in age : v <= AGE_LOW \/ v > AGE_HIGH THEN None ELSE age

\* lines 135-138: to_numeric, then the unrealistic ages set to NaN
clean_age(cell) ==
    LET age == to_numeric(cell)
    IN IF \E v \in age : v < AGE_LOW \/ v > AGE_HIGH THEN None ELSE age

\* categorize_age(age)
categorize_age(age) ==
    IF age = None THEN "Unknown"
    ELSE IF Val(age) < 26 THEN "18-25"
    ELSE IF Val(age) < 36 THEN "26-35"
    ELSE IF Val(age) < 51 THEN "36-50"
    ELSE IF Val(age) < 66 THEN "51-65"
    ELSE "66+"

\* bc_users_clean['age_group'] of a user whose raw Age is cell
age_group(cell) == categorize_age(clean_age(cell))

\* the raw ages run from -1 to MaxAge
MaxAge == 101

RawAges == {Number(n) : n \in (-1)..MaxAge} \cup {Unparseable, Missing}

InitAge ==
    /\ pc = "raw_age"
    /\ input \in RawAges
    /\ output = None
    /\ NoTables

CategorizeAge ==
    /\ pc = "raw_age"
    /\ output' = age_group(input)
    /\ pc' = "age_group"
    /\ UNCHANGED <<input, tables>>

NextAge == CategorizeAge

SpecAge == InitAge /\ [][NextAge]_vars

\* C9: the cohort label is 'Unknown' when the age is missing, unparseable,
\* below 10 or above 100; otherwise '18-25' below 26, '26-35' from 26 to
\* 35, '36-50' from 36 to 50, '51-65' from 51 to 65 and '66+' from 66;
\* 10 and 100 are valid ages; the label is one of these six.
C9_CohortLabelByAge ==
    pc = "age_group" =>
        /\ output \in {"Unknown", "18-25", "26-35", "36-50", "51-65", "66+"}
        /\ input.kind # "number" => output = "Unknown"
        /\ input.kind = "number" =>
             LET a == input.value
             IN /\ (a < 10 \/ a > 100) => output = "Unknown"
                /\ (10 <= a /\ a < 26) => output = "18-25"
                /\ (26 <= a /\ a < 36) => output = "26-35"
                /\ (36 <= a /\ a < 51) => output = "36-50"
                /\ (51 <= a /\ a < 66) => output = "51-65"
                /\ (66 <= a /\ a <= 100) => output = "66+"

\* the age 10, the lowest kept, was put in the youngest cohort
C9_Witness ==
    /\ pc = "age_group"
    /\ input = Number(10)
    /\ output = "18-25"

(***************************************************************************)
(* Rating Aggregator (03_clean_bookcrossing.py, lines 87-121)              *)
(*                                                                         *)
(* A rating event is [user_id, ISBN, book_rating]: the columns User-ID,    *)
(* ISBN and Book-Rating.  A mean is the exact fraction [num, den] in       *)
(* lowest terms; the standard deviation is kept as its square.             *)
(***************************************************************************)
RECURSIVE GCD(_, _)
GCD(a, b) == IF b = 0 THEN a ELSE GCD(b, a % b)

Frac(n, d) == LET g == GCD(n, d) IN [num |-> n \div g, den |-> d \div g]

RECURSIVE SumSeq(_)
SumSeq(xs) == IF xs = <<>> THEN 0 ELSE Head(xs) + SumSeq(Tail(xs))

\* the order of str: by code point, digits before upper-case letters
CODE_ORDER == <<"0", "1", "2", "3", "4", "5", "6", "7", "8", "9">> \o UPPER

CodeRank(c) == CHOOSE i \in 1..Len(CODE_ORDER) : CODE_ORDER[i] = c

StrLess(a, b) ==
    \E i \in 1..(Len(b)) :
        /\ i <= Len(a) + 1
        /\ SubSeq(a, 1, i - 1) = SubSeq(b, 1, i - 1)
        /\ i = Len(a) + 1 \/ CodeRank(a[i]) < CodeRank(b[i])

\* the members of K in ascending order (groupby sorts the group keys)
SortedKeys(K) ==
    [n \in 1..Cardinality(K) |->
        CHOOSE k \in K : Cardinality({x \in K : StrLess(x, k)}) = n - 1]

\* xs in ascending order
SortedInts(xs) ==
    [n \in 1..Len(xs) |->
        Min({v \in {xs[j] : j \in 1..Len(xs)} :
                Cardinality({j \in 1..Len(xs) : xs[j] <= v}) >= n})]

\* Series.mean()
mean(xs) == Frac(SumSeq(xs), Len(xs))

\* a mutant: the middle of the values as they come
median_unsorted(xs) ==
    LET n == Len(xs)
    IN IF n % 2 = 1 THEN Frac(xs[(n + 1) \div 2], 1)
       ELSE Frac(xs[n \div 2] + xs[n \div 2 + 1], 2)

\* Series.median()
median(xs) ==
    LET sorted == SortedInts(xs)
        n == Len(xs)
    IN IF n % 2 = 1 THEN Frac(sorted[(n + 1) \div 2], 1)
       ELSE Frac(sorted[n \div 2] + sorted[n \div 2 + 1], 2)

\* Series.std() squared: the sample variance, NaN for a single value
std_squared(xs) ==
    LET n == Len(xs)
        squares == SumSeq([j \in 1..n |-> xs[j] * xs[j]])
    IN IF n < 2 THEN None
       ELSE Some(Frac(n * squares - SumSeq(xs) * SumSeq(xs), n * (n - 1)))

\* bc_aggregated['bc_rating_count'] >= 10
MIN_RATING_COUNT == 10

\* a mutant: the implicit ratings (0) left in
explicit_ratings_with_zero(df) == SelectSeq(df, LAMBDA r : r.book_rating >= 0)

\* bc_ratings[bc_ratings['Book-Rating'] > 0]
explicit_ratings(df) == SelectSeq(df, LAMBDA r : r.book_rating > 0)

\* lines 100-102: isbn_clean added, the rows without it dropped
ratings_with_clean_isbn(df) ==
    SelectSeq([i \in 1..Len(df) |-> df[i] @@ [isbn_clean |-> bc_clean_isbn(df[i].ISBN)]],
              LAMBDA r : r.isbn_clean # None)

\* lines 111-118: groupby('isbn_clean').agg(mean, count, std, median)
aggregate_ratings(df) ==
    LET keys == SortedKeys({Val(df[i].isbn_clean) : i \in 1..Len(df)})
    IN [n \in 1..Len(keys) |->
           LET group == SelectSeq(df, LAMBDA r : r.isbn_clean = Some(keys[n]))
               scores == [j \in 1..Len(group) |-> group[j].book_rating]
           IN [isbn |-> keys[n],
               bc_rating_avg |-> mean(scores),
               bc_rating_count |-> Len(scores),
               bc_rating_stddev_squared |-> std_squared(scores),
               bc_rating_median |-> median(scores),
               bc_rating_normalized |-> Frac(SumSeq(scores), 2 * Len(scores))]]

\* a mutant: every aggregate is kept, whatever its count
filter_min_count_keep_all(agg) == agg

\* bc_aggregated[bc_aggregated['bc_rating_count'] >= 10]
filter_min_count(agg) == SelectSeq(agg, LAMBDA a : a.bc_rating_count >= MIN_RATING_COUNT)

\* 03_clean_bookcrossing.py from bc_ratings to bc_aggregated_filtered
clean_bookcrossing(df) ==
    filter_min_count(aggregate_ratings(ratings_with_clean_isbn(explicit_ratings(df))))

(***************************************************************************)
(* Actors and the cohort aggregate (03_clean_bookcrossing.py, lines        *)
(* 127-195).  An actor is [user_id, Age]: the columns User-ID and Age.     *)
(* The column Location and what is derived from it (country, is_uk) are    *)
(* left out: no aggregate depends on them.                                 *)
(***************************************************************************)
RECURSIVE Flatten(_)
Flatten(ss) == IF ss = <<>> THEN <<>> ELSE Head(ss) \o Flatten(Tail(ss))

User(user, age) == [user_id |-> user, Age |-> age]

\* lines 131-158: bc_users_clean with Age cleaned and age_group added
clean_users(users) ==
    [i \in 1..Len(users) |->
        [user_id |-> users[i].user_id,
         Age |-> clean_age(users[i].Age),
         age_group |-> age_group(users[i].Age)]]

\* bc_ratings_clean.merge(bc_users_clean[[...]], on='User-ID', how='left'):
\* one row for every actor row with the event's User-ID, and one row with
\* NaN as age_group for an event without any
merge_users(ratings, users) ==
    Flatten([i \in 1..Len(ratings) |->
        LET matches == SelectSeq(users, LAMBDA u : u.user_id = ratings[i].user_id)
        IN IF matches = <<>> THEN <<ratings[i] @@ [age_group |-> None]>>
           ELSE [j \in 1..Len(matches) |->
                    ratings[i] @@ [age_group |-> Some(matches[j].age_group)]]])

\* the labels of categorize_age in the order of str
AGE_GROUPS == <<"18-25", "26-35", "36-50", "51-65", "66+", "Unknown">>

\* groupby(['isbn_clean', 'age_group']).agg(mean, count): groupby leaves
\* out the rows with NaN in a key (dropna) and sorts the groups by key
aggregate_by_cohort(df) ==
    LET known == SelectSeq(df, LAMBDA r : r.age_group # None)
        keys == SortedKeys({Val(known[i].isbn_clean) : i \in 1..Len(known)})
    IN Flatten([n \in 1..Len(keys) |->
         Flatten([g \in 1..Len(AGE_GROUPS) |->
           LET group == SelectSeq(known, LAMBDA r : /\ r.isbn_clean = Some(keys[n])
                                                    /\ r.age_group = Some(AGE_GROUPS[g]))
               scores == [j \in 1..Len(group) |-> group[j].book_rating]
           IN IF group = <<>> THEN <<>>
              ELSE <<[isbn |-> keys[n],
                      age_group |-> Some(AGE_GROUPS[g]),
                      rating_avg |-> mean(scores),
                      rating_count |-> Len(scores)]>>])])

\* demographic_insights['rating_count'] >= 5
MIN_COHORT_COUNT == 5

filter_min_cohort_count(agg) ==
    SelectSeq(agg, LAMBDA a : a.rating_count >= MIN_COHORT_COUNT)

\* 03_clean_bookcrossing.py from bc_ratings and bc_users to demographic_insights
cohort_insights(ratings, users) ==
    filter_min_cohort_count(aggregate_by_cohort(
        merge_users(ratings_with_clean_isbn(explicit_ratings(ratings)),
                    clean_users(users))))

(***************************************************************************)
(* The rating aggregator as a whole.  The events are drawn as a few runs,  *)
(* a run being one event (identifier, score) repeated MaxRepeat - 1 or     *)
(* MaxRepeat times; or they are the example of the specification: 12       *)
(* scores for "0439708184", with three events of another book, an          *)
(* implicit rating and two unusable identifiers.                           *)
(***************************************************************************)
MaxRuns == 2
MaxRepeat == 5

Event(user, isbn, score) == [user_id |-> user, ISBN |-> isbn, book_rating |-> score]

EventIdentifiers ==
    { Some(ISBN10), Some(<<" ", "0", "-", "4", "3", "9", "-", "7", "0", "8", "1", "8", "-", "x">>), Some(<<"9", "7", "8">>) }

EventScores == {0, 8, 9}

Runs ==
    { [j \in 1..n |-> Event(1, isbn, score)] :
        isbn \in EventIdentifiers, score \in EventScores,
        n \in {MaxRepeat - 1, MaxRepeat} }

POTTER == <<"0", "4", "3", "9", "7", "0", "8", "1", "8", "4">>

ExampleEvents ==
    [j \in 1..12 |-> Event(j, Some(POTTER), <<9, 9, 10, 8, 9, 10, 9, 8, 9, 10, 9, 9>>[j])]
    \o [j \in 1..3 |-> Event(j, Some(ISBN13), 7)]
    \o <<Event(4, Some(POTTER), 0), Event(5, Some(<<"9", "7", "8">>), 10), Event(6, None, 10)>>

InitRatings ==
    /\ pc = "03_start"
    /\ input = None
    /\ output = None
    /\ goodreads = <<>>
    /\ bc_ratings \in Concats(Runs, MaxRuns) \cup {ExampleEvents}
    /\ bc_users = <<>>
    /\ NewDirectory

\* 03_clean_bookcrossing.py: the three tables it writes to data/processed
\* (bc_ratings_with_demographics.csv, which no later stage reads, is left out)
\* Without one of the three raw files it exits with status 1.
CleanBookCrossing ==
    /\ pc = "03_start"
    /\ IF Exists("BX-Books.csv") /\ Exists("BX-Book-Ratings.csv") /\ Exists("BX-Users.csv")
       THEN /\ bc_aggregated_filtered' = Some(clean_bookcrossing(bc_ratings))
            /\ bc_users_clean' = Some(clean_users(bc_users))
            /\ demographic_insights' = Some(cohort_insights(bc_ratings, bc_users))
            /\ pc' = "03_done"
       ELSE /\ pc' = "03_failed"
            /\ UNCHANGED <<bc_aggregated_filtered, bc_users_clean, demographic_insights>>
    /\ UNCHANGED <<input, output, goodreads, goodreads_final, bc_ratings,
                   master_dataset, bc_users, run_state>>

NextRatings == CleanBookCrossing

SpecRatings == InitRatings /\ [][NextRatings]_vars

Aggregated == pc = "03_done"
AggregateTable == Val(bc_aggregated_filtered)
AggregateRows == {AggregateTable[n] : n \in 1..Len(AggregateTable)}

\* what a raw identifier normalizes to: its A-Z0-9 characters, uppercased,
\* when there are 10 or 13 of them
NormalizedIdentifier(raw) ==
    IF raw = None THEN None
    ELSE IF Len(UpperKept(Val(raw))) \in {10, 13} THEN Some(UpperKept(Val(raw)))
    ELSE None

\* the events with a nonzero score whose identifier normalizes to k
Supporting(k) ==
    {j \in 1..Len(bc_ratings) :
        /\ bc_ratings[j].book_rating # 0
        /\ NormalizedIdentifier(bc_ratings[j].ISBN) = Some(k)}

RECURSIVE ScoreTotal(_)
ScoreTotal(J) ==
    IF J = {} THEN 0
    ELSE LET j == CHOOSE x \in J : TRUE
         IN bc_ratings[j].book_rating + ScoreTotal(J \ {j})

KeysOfEvents ==
    UNION {NormalizedIdentifier(bc_ratings[j].ISBN) : j \in 1..Len(bc_ratings)}

\* a row for key k exactly when at least 10 events have a nonzero score and
\* an identifier that normalizes to k; the row's count is the number of
\* these events, its mean their arithmetic mean, its rescaled mean half of
\* that
AggregatesSupportingEvents ==
    /\ \A k \in KeysOfEvents :
         Cardinality({n \in 1..Len(AggregateTable) : AggregateTable[n].isbn = k})
            = (IF Cardinality(Supporting(k)) >= 10 THEN 1 ELSE 0)
    /\ \A a \in AggregateRows :
         LET count == Cardinality(Supporting(a.isbn))
             total == ScoreTotal(Supporting(a.isbn))
         IN /\ a.isbn \in KeysOfEvents
            /\ a.bc_rating_count = count
            /\ a.bc_rating_avg.num * count = total * a.bc_rating_avg.den
            /\ 2 * a.bc_rating_normalized.num * a.bc_rating_avg.den
                  = a.bc_rating_avg.num * a.bc_rating_normalized.den

\* the row of the 12 example events has count 12 and the given means
ExampleAggregate(avg, normalized) ==
    bc_ratings = ExampleEvents =>
        \E a \in AggregateRows :
            /\ a.isbn = POTTER
            /\ a.bc_rating_count = 12
            /\ a.bc_rating_avg = avg
            /\ a.bc_rating_normalized = normalized

C10_WitnessTwoSpellings ==
    /\ Aggregated
    /\ \E a \in AggregateRows :
          /\ a.isbn = ISBN10
          /\ a.bc_rating_count = 10
          /\ a.bc_rating_avg = [num |-> 17, den |-> 2]
          /\ a.bc_rating_normalized = [num |-> 17, den |-> 4]
    /\ \E i, j \in 1..Len(bc_ratings) : bc_ratings[i].ISBN # bc_ratings[j].ISBN

(***************************************************************************)
(* The cohort aggregate.  The events come in runs of MIN_COHORT_COUNT - 1  *)
(* or MIN_COHORT_COUNT events of one actor for one spelling of one         *)
(* identifier; actor 3 is in no actor table, actor 1 can be listed twice.  *)
(***************************************************************************)
MaxCohortRuns == 2

CohortRuns ==
    { [j \in 1..n |-> Event(user, isbn, 6 + user)] :
        user \in {1, 2, 3},
        isbn \in {Some(ISBN10), Some(<<" ", "0", "-", "4", "3", "9", "-", "7", "0", "8", "1", "8", "-", "x">>)},
        n \in {MIN_COHORT_COUNT - 1, MIN_COHORT_COUNT} }

ActorTables ==
    { <<>>,
      <<User(1, Number(20))>>,
      <<User(2, Missing)>>,
      <<User(1, Number(20)), User(2, Number(40))>>,
      <<User(1, Number(20)), User(1, Number(70))>> }

InitCohort ==
    /\ pc = "03_start"
    /\ input = None
    /\ output = None
    /\ goodreads = <<>>
    /\ bc_ratings \in Concats(CohortRuns, MaxCohortRuns)
    /\ bc_users \in ActorTables
    /\ NewDirectory

NextCohort == CleanBookCrossing

SpecCohort == InitCohort /\ [][NextCohort]_vars

CohortTable == Val(demographic_insights)
CohortRows == {CohortTable[n] : n \in 1..Len(CohortTable)}

\* the events with a nonzero score and an identifier that normalizes to k
\* whose actor is in no row of the actor table
FromUnknownActors(k) ==
    {j \in Supporting(k) :
        \A u \in 1..Len(bc_users) : bc_users[u].user_id # bc_ratings[j].user_id}

\* C11: for every identity key with at least 5 retained events from actors
\* that are not in the actor table, the cohort aggregate table has a row for
\* that key and the null cohort with the number of these events as count;
\* and every row of the table has a count of at least 5.
C11_NullCohortIsItsOwnGroup ==
    Aggregated =>
        /\ \A k \in KeysOfEvents :
             Cardinality(FromUnknownActors(k)) >= 5 =>
                \E a \in CohortRows :
                    /\ a.isbn = k
                    /\ a.age_group = None
                    /\ a.rating_count = Cardinality(FromUnknownActors(k))
        /\ \A a \in CohortRows : a.rating_count >= 5

(***************************************************************************)
(* Stage 03 run again.  The events are EventCount events of two kinds, in  *)
(* every order; between two runs two neighbours in BX-Book-Ratings.csv     *)
(* change places, or none does.  The actor table has the actors 1 and 2.   *)
(***************************************************************************)
EventCount == 10

EventKinds ==
    { {Event(1, Some(ISBN10), 8), Event(2, Some(<<" ", "0", "-", "4", "3", "9", "-", "7", "0", "8", "1", "8", "-", "x">>), 9)},
      {Event(1, Some(ISBN10), 8), Event(1, Some(ISBN10), 0)},
      {Event(1, Some(ISBN10), 8), Event(3, Some(ISBN13), 5)} }

InitRerun ==
    /\ pc = "03_start"
    /\ input = None
    /\ output = None
    /\ goodreads = <<>>
    /\ bc_ratings \in UNION {[1..EventCount -> kinds] : kinds \in EventKinds}
    /\ bc_users = <<User(1, Number(20)), User(2, Number(40))>>
    /\ NewDirectory

\* 03_clean_bookcrossing.py started again by hand on the events in another
\* order (the neighbours i and i + 1 swapped) or in the same order (i = 0)
RerunBookCrossing ==
    /\ pc \in {"03_done", "03_done_again"}
    /\ \E i \in 0..(Len(bc_ratings) - 1) :
          bc_ratings' = IF i = 0 THEN bc_ratings
                        ELSE [bc_ratings EXCEPT ![i] = bc_ratings[i + 1],
                                                ![i + 1] = bc_ratings[i]]
    /\ bc_aggregated_filtered' = Some(clean_bookcrossing(bc_ratings'))
    /\ bc_users_clean' = Some(clean_users(bc_users))
    /\ demographic_insights' = Some(cohort_insights(bc_ratings', bc_users))
    /\ pc' = "03_done_again"
    /\ UNCHANGED <<input, output, goodreads, goodreads_final, master_dataset,
                   bc_users, run_state>>

NextRerun == CleanBookCrossing \/ RerunBookCrossing

SpecRerun == InitRerun /\ [][NextRerun]_vars

\* the aggregate rows of a file: key, count, mean, median
AggregateSet(file) ==
    { [isbn |-> Val(file)[n].isbn,
       bc_rating_count |-> Val(file)[n].bc_rating_count,
       bc_rating_avg |-> Val(file)[n].bc_rating_avg,
       bc_rating_median |-> Val(file)[n].bc_rating_median] : n \in 1..Len(Val(file)) }

CohortSet(file) == { Val(file)[n] : n \in 1..Len(Val(file)) }

\* C12: a run of the aggregation over the same events, in the same or in
\* another order, and the same actors gives the same set of aggregate rows
\* (keys, counts, means, medians) and the same set of cohort aggregate rows
\* as the run before.
C12_SameAggregatesInAnyOrder ==
    [][pc' = "03_done_again" =>
          /\ AggregateSet(bc_aggregated_filtered') = AggregateSet(bc_aggregated_filtered)
          /\ CohortSet(demographic_insights') = CohortSet(demographic_insights)]_vars

\* a second run has written an aggregate with a median between two scores
\* and the aggregates of two cohorts
C12_Witness ==
    /\ pc = "03_done_again"
    /\ \E a \in AggregateSet(bc_aggregated_filtered) :
          a.bc_rating_median.den = 2 /\ a.bc_rating_avg.den = 2
    /\ Cardinality(CohortSet(demographic_insights)) = 2
    /\ bc_ratings[1] # bc_ratings[2]

(***************************************************************************)
(* Join & Scoring Engine (04_create_database.py)                           *)
(*                                                                         *)
(* The cleaned tables reach the store through a CSV file and a DataFrame:  *)
(* read_csv infers the type of each column from its text, and to_sql       *)
(* declares the column of the SQL table by that type.  The identifiers     *)
(* drawn below are made of digits and 'X', so a cell reads as a number     *)
(* exactly when it is made of digits.                                      *)
(***************************************************************************)
IsNumeral(s) == s # <<>> /\ \A i \in 1..Len(s) : s[i] \in DIGITS

\* str(int(s)): the numeral without its leading zeros
RECURSIVE int_str(_)
int_str(s) == IF Len(s) > 1 /\ Head(s) = "0" THEN int_str(Tail(s)) ELSE s

\* the dtype read_csv infers for a column of cells (None is an empty cell)
inferred_dtype(cells) ==
    IF cells = <<>> THEN "object"
    ELSE IF \E i \in 1..Len(cells) : cells[i] # None /\ ~IsNumeral(Val(cells[i]))
         THEN "object"
    ELSE IF \E i \in 1..Len(cells) : cells[i] = None THEN "float64"
    ELSE "int64"

\* the value read_csv gives a cell of a column of the dtype
parsed_cell(dtype, cell) ==
    IF cell = None \/ dtype = "object" THEN cell ELSE Some(int_str(Val(cell)))

\* the declared type to_sql gives a column of the dtype
sql_type(dtype) ==
    CASE dtype = "int64" -> "INTEGER"
      [] dtype = "float64" -> "REAL"
      [] OTHER -> "TEXT"

\* pd.read_csv('data/processed/goodreads_cleaned.csv') and
\* goodreads.to_sql('books', conn, if_exists='replace', index=False)
books_table(df) ==
    LET key_dtype == inferred_dtype([i \in 1..Len(df) |-> df[i].book_key])
        isbn_dtype == inferred_dtype([i \in 1..Len(df) |-> df[i].isbn])
    IN [book_key_type |-> sql_type(key_dtype),
        isbn_type |-> sql_type(isbn_dtype),
        rows |-> [i \in 1..Len(df) |->
                    [book_key |-> parsed_cell(key_dtype, df[i].book_key),
                     isbn |-> parsed_cell(isbn_dtype, df[i].isbn),
                     title |-> df[i].title,
                     authors |-> df[i].authors,
                     goodreads_rating |-> df[i].goodreads_rating,
                     goodreads_review_count |-> df[i].goodreads_review_count,
                     page_count |-> df[i].page_count,
                     publisher |-> df[i].publisher,
                     is_uk_publisher |-> df[i].is_uk_publisher]]]

\* CREATE TABLE IF NOT EXISTS books (book_key TEXT PRIMARY KEY, isbn TEXT, ...)
empty_books == [book_key_type |-> "TEXT", isbn_type |-> "TEXT", rows |-> <<>>]

\* CREATE TABLE IF NOT EXISTS community_ratings (isbn TEXT PRIMARY KEY, ...)
empty_community_ratings == [isbn_type |-> "TEXT", rows |-> <<>>]

\* the four CREATE TABLE IF NOT EXISTS: a table that revenueedge.db has
\* already is left as it is
created_tables(db) ==
    IF db = None
    THEN [books |-> empty_books,
          community_ratings |-> empty_community_ratings,
          users |-> <<>>,
          demographic_ratings |-> <<>>]
    ELSE Val(db)

\* pd.read_csv of a processed file; except FileNotFoundError: pd.DataFrame()
read_or_empty(file) == IF file = None THEN <<>> ELSE Val(file)

\* bc_ratings.to_sql('community_ratings', conn, if_exists='replace', ...)
community_ratings_table(df) ==
    LET isbn_dtype == inferred_dtype([i \in 1..Len(df) |-> Some(df[i].isbn)])
    IN [isbn_type |-> sql_type(isbn_dtype),
        rows |-> [i \in 1..Len(df) |->
                    [df[i] EXCEPT !.isbn = parsed_cell(isbn_dtype, Some(@))]]]

\* lines 116-129: books is replaced; each of the other tables is replaced
\* if its frame has a row, and left as it is otherwise
inserted_tables(db, catalog, aggregates, users, cohorts) ==
    [books |-> books_table(catalog),
     community_ratings |->
        IF Len(aggregates) > 0 THEN community_ratings_table(aggregates)
        ELSE db.community_ratings,
     users |-> IF Len(users) > 0 THEN users ELSE db.users,
     demographic_ratings |-> IF Len(cohorts) > 0 THEN cohorts ELSE db.demographic_ratings]

\* b.isbn = c.isbn: text against text compares the characters; as soon as
\* one column is INTEGER or REAL the other operand is converted to a number
\* if it reads as one, and a number never equals a text
sql_equal(type1, cell1, type2, cell2) ==
    /\ cell1 # None
    /\ cell2 # None
    /\ IF type1 = "TEXT" /\ type2 = "TEXT" THEN cell1 = cell2
       ELSE /\ IsNumeral(Val(cell1))
            /\ IsNumeral(Val(cell2))
            /\ int_str(Val(cell1)) = int_str(Val(cell2))

\* FROM books b LEFT JOIN community_ratings c ON b.isbn = c.isbn: the pairs
\* <<b, {c}>>, and <<b, {}>> for a b that nothing matches
left_join(books, community) ==
    Flatten([i \in 1..Len(books.rows) |->
        LET b == books.rows[i]
            matches == SelectSeq(community.rows,
                           LAMBDA c : sql_equal(books.isbn_type, b.isbn,
                                                community.isbn_type, c.isbn))
        IN IF matches = <<>> THEN << <<b, None>> >>
           ELSE [j \in 1..Len(matches) |-> <<b, Some(matches[j])>>]])

\* a mutant: WHERE c.isbn IS NOT NULL
where_matched(pairs) ==
    SelectSeq(pairs, LAMBDA bc : bc[2] # None)

\* WHERE b.is_uk_publisher = 1 OR c.isbn IS NOT NULL
where_flagged_or_matched(pairs) ==
    SelectSeq(pairs, LAMBDA bc : bc[1].is_uk_publisher \/ bc[2] # None)

\* the thresholds of the CASE expression
CATEGORY_HIGH == 4
CATEGORY_LOW == 3
REVIEWS_MANY == 500

\* a mutant: the CASE expression with > 4.0 in place of >= 4.0
book_category_above(bc_rating, review_count) ==
    IF bc_rating = None THEN "Average"
    ELSE LET m == Val(bc_rating)
         IN IF m.num > CATEGORY_HIGH * m.den /\ review_count < REVIEWS_MANY
               THEN "Hidden Gem"
            ELSE IF m.num > CATEGORY_HIGH * m.den /\ review_count >= REVIEWS_MANY
               THEN "Popular Favorite"
            ELSE IF m.num < CATEGORY_LOW * m.den THEN "Underperformer"
            ELSE "Average"

\* CASE WHEN ... END AS book_category; a comparison with NULL is not true
book_category(bc_rating, review_count) ==
    IF bc_rating = None THEN "Average"
    ELSE LET m == Val(bc_rating)
         IN IF m.num >= CATEGORY_HIGH * m.den /\ review_count < REVIEWS_MANY
               THEN "Hidden Gem"
            ELSE IF m.num >= CATEGORY_HIGH * m.den /\ review_count >= REVIEWS_MANY
               THEN "Popular Favorite"
            ELSE IF m.num < CATEGORY_LOW * m.den THEN "Underperformer"
            ELSE "Average"

\* (b.goodreads_rating * LOG(b.goodreads_review_count + 1)): the product is
\* kept as its factors, [rating, log, argument] standing for
\* rating * log(argument); LOG(X) of SQLite is the logarithm to base 10, its
\* natural logarithm is LN(X)
engagement_score(rating, review_count) ==
    IF rating = None THEN None
    ELSE Some([rating |-> Val(rating), log |-> "log10", argument |-> review_count + 1])

\* the SELECT list
select_row(b, c) ==
    LET bc_rating == IF c = None THEN None ELSE Some(Val(c).bc_rating_normalized)
    IN [book_key |-> b.book_key,
        isbn |-> b.isbn,
        title |-> b.title,
        authors |-> b.authors,
        goodreads_rating |-> b.goodreads_rating,
        goodreads_review_count |-> b.goodreads_review_count,
        page_count |-> b.page_count,
        publisher |-> b.publisher,
        is_uk_publisher |-> b.is_uk_publisher,
        bc_rating |-> bc_rating,
        bc_rating_count |-> IF c = None THEN None ELSE Some(Val(c).bc_rating_count),
        bc_rating_stddev_squared |->
            IF c = None THEN None ELSE Val(c).bc_rating_stddev_squared,
        rating_gap |->
            IF bc_rating = None \/ b.goodreads_rating = None THEN None
            ELSE Some([num |-> Val(bc_rating).num
                                  - Val(b.goodreads_rating) * Val(bc_rating).den,
                       den |-> Val(bc_rating).den]),
        book_category |-> book_category(bc_rating, b.goodreads_review_count),
        engagement_score |->
            engagement_score(b.goodreads_rating, b.goodreads_review_count)]

RECURSIVE Pow(_, _)
Pow(a, n) == IF n = 0 THEN 1 ELSE a * Pow(a, n - 1)

\* x >= y for two products rating * LOG(argument), rating >= 0, argument >= 1
product_geq(x, y) ==
    IF y.rating = 0 \/ y.argument = 1 THEN TRUE
    ELSE IF x.rating = 0 \/ x.argument = 1 THEN FALSE
    ELSE IF x.rating >= y.rating /\ x.argument >= y.argument THEN TRUE
    ELSE IF x.rating <= y.rating /\ x.argument <= y.argument THEN FALSE
    ELSE Pow(x.argument, x.rating) >= Pow(y.argument, y.rating)

\* a mutant: ORDER BY ... ASC, where NULL sorts first
sorts_after_or_with(e1, e2) ==
    e1 = None \/ (e2 # None /\ product_geq(Val(e2), Val(e1)))

\* e1 is not after e2 under ORDER BY ... DESC, where NULL sorts last
sorts_before_or_with(e1, e2) ==
    e2 = None \/ (e1 # None /\ product_geq(Val(e1), Val(e2)))

\* ORDER BY engagement_score DESC: every order of rows that is descending;
\* rows with equal scores come in any order
RECURSIVE order_by_engagement(_, _)
order_by_engagement(rows, I) ==
    IF I = {} THEN {<<>>}
    ELSE UNION { { <<rows[i]>> \o rest : rest \in order_by_engagement(rows, I \ {i}) } :
                 i \in { i \in I : \A j \in I :
                            sorts_before_or_with(rows[i].engagement_score,
                                                 rows[j].engagement_score) } }

\* the results sql_query can give on the two tables
sql_query(books, community) ==
    LET pairs == where_flagged_or_matched(left_join(books, community))
        rows == [n \in 1..Len(pairs) |-> select_row(pairs[n][1], pairs[n][2])]
    IN order_by_engagement(rows, 1..Len(rows))

(***************************************************************************)
(* The pipeline as run_all.py runs it in a new directory.                  *)
(* A catalog row carries a short identifier, with or without a check       *)
(* character 'X', and a long field that is empty, a 13-character           *)
(* identifier, the short identifier padded with zeros to 13 characters, or *)
(* the short identifier itself.  The events rate some of three books:      *)
(* MIN_RATING_COUNT events for the first, one more for each next one, so   *)
(* that the count of an aggregate tells its key.                           *)
(***************************************************************************)
MaxJoinRows == 2

PADDED == <<"0", "0", "0", "0", "4", "3", "9", "7", "0", "8", "1", "8", "4">>

JoinRows ==
    { RawRow(0, Some(isbn), isbn13, None, Some(<<"H", "e", "r", "b", "e", "r", "t">>),
             Number(4), Number(9), Number(300), Some(publisher)) :
        isbn \in {POTTER, ISBN10},
        isbn13 \in {None, Some(ISBN13), Some(PADDED), Some(POTTER)},
        publisher \in {<<"P", "e", "n", "g", "u", "i", "n">>, <<"A", "c", "m", "e", " ", "P", "r", "e", "s", "s">>} }

TitleOf(i) == <<"D", "u", "n", "e", " ", UPPER[i]>>

\* the frames of at most n rows: row i has its own title, and the first row
\* a lower rating than the others
JoinFrames(n) ==
    { [i \in 1..Len(f) |->
          [f[i] EXCEPT !.title = Some(TitleOf(i)),
                       !.average_rating = Number(IF i = 1 THEN 3 ELSE 4)]] :
        f \in Frames(JoinRows, n) }

RatedBooks == <<POTTER, ISBN13, ISBN10>>

EventsOf(K) ==
    Flatten([b \in 1..Len(RatedBooks) |->
        IF RatedBooks[b] \in K
        THEN [j \in 1..(MIN_RATING_COUNT + b - 1) |-> Event(j, Some(RatedBooks[b]), 7 + b)]
        ELSE <<>>])

InitJoin ==
    /\ pc = "run_all"
    /\ input = None
    /\ output = None
    /\ goodreads \in JoinFrames(MaxJoinRows)
    /\ bc_ratings \in {EventsOf(K) : K \in SUBSET {POTTER, ISBN13, ISBN10}}
    /\ bc_users = <<>>
    /\ NewDirectory

(***************************************************************************)
(* run_all.py and the six scripts it runs.  pc is "run_all" before the     *)
(* first step, START[k] while script k runs, DONE[k] or FAILED[k] when it  *)
(* has exited with status 0 or 1, "stopped" after the break of the loop    *)
(* and "finished" after the last step.  An interrupt from the keyboard is  *)
(* left out.                                                               *)
(***************************************************************************)
START == <<"01_start", "02_start", "03_start", "04_start", "05_start", "06_start">>
DONE == <<"01_done", "02_done", "03_done", "04_done", "05_done", "06_done">>
FAILED == <<"01_failed", "02_failed", "03_failed", "04_failed", "05_failed", "06_failed">>

\* run_script up to subprocess.run: False if the script file is not there
\* (script_found is os.path.exists(script_path))
started(k, script_found) == IF script_found THEN START[k] ELSE "stopped"

\* main up to the first run_script
StartPipeline ==
    /\ pc = "run_all"
    /\ \E script_found \in BOOLEAN : pc' = started(1, script_found)
    /\ UNCHANGED <<input, output, tables>>

\* a mutant: the loop goes on to the next script after a failure
StopPipeline_goes_on ==
    /\ \E k \in 1..5 : pc = FAILED[k] /\ pc' = START[k + 1]
    /\ UNCHANGED <<input, output, tables>>

\* main: run_script returned False for a script that exited with status 1;
\* break
StopPipeline ==
    /\ \E k \in 1..Len(FAILED) : pc = FAILED[k]
    /\ pc' = "stopped"
    /\ UNCHANGED <<input, output, tables>>

\* main: run_script returned True; success_count += 1, and the next script
\* of the list, if there is one
RunNextScript ==
    /\ \E k \in 1..Len(DONE) :
          /\ pc = DONE[k]
          /\ IF k = Len(DONE) THEN pc' = "finished"
             ELSE \E script_found \in BOOLEAN : pc' = started(k + 1, script_found)
    /\ success_count' = success_count + 1
    /\ UNCHANGED <<input, output, goodreads, goodreads_final, bc_ratings,
                   bc_aggregated_filtered, master_dataset, bc_users,
                   bc_users_clean, demographic_insights, store, raw_files, runs>>

\* 01_explore_data.py: without the directory data/raw it exits with status
\* 1; it writes nothing
ExploreData ==
    /\ pc = "01_start"
    /\ pc' = (IF raw_files = None THEN "01_failed" ELSE "01_done")
    /\ UNCHANGED <<input, output, tables>>

\* 04_create_database.py: without the cleaned catalog it exits with status
\* 1; a missing file of stage 03 is read as an empty frame; a failure of the
\* query, as in a SQLite library without the function LOG (has_log), is
\* printed as a warning, master_dataset.csv is not written and the script
\* exits with status 0
CreateDatabase ==
    /\ pc = "04_start"
    /\ IF goodreads_final = None
       THEN pc' = "04_failed" /\ UNCHANGED <<master_dataset, store>>
       ELSE LET db == inserted_tables(created_tables(store),
                                      Val(goodreads_final),
                                      read_or_empty(bc_aggregated_filtered),
                                      read_or_empty(bc_users_clean),
                                      read_or_empty(demographic_insights))
            IN /\ store' = Some(db)
               /\ pc' = "04_done"
               /\ \E has_log \in BOOLEAN :
                    IF has_log
                    THEN \E result \in sql_query(db.books, db.community_ratings) :
                            master_dataset' = Some(result)
                    ELSE UNCHANGED master_dataset
    /\ UNCHANGED <<input, output, goodreads, goodreads_final, bc_ratings,
                   bc_aggregated_filtered, bc_users, bc_users_clean,
                   demographic_insights, success_count, raw_files, runs>>

\* 05_analyze_data.py: without master_dataset.csv it exits with status 1;
\* its reports are not part of the model
AnalyzeData ==
    /\ pc = "05_start"
    /\ pc' = (IF master_dataset = None THEN "05_failed" ELSE "05_done")
    /\ UNCHANGED <<input, output, tables>>

\* 06_export_for_tableau.py: without master_dataset.csv it exits with status
\* 1; its export is not part of the model
ExportForTableau ==
    /\ pc = "06_start"
    /\ pc' = (IF master_dataset = None THEN "06_failed" ELSE "06_done")
    /\ UNCHANGED <<input, output, tables>>

\* one run of run_all.py
RunAll ==
    \/ StartPipeline
    \/ ExploreData
    \/ CleanGoodreads
    \/ CleanBookCrossing
    \/ CreateDatabase
    \/ AnalyzeData
    \/ ExportForTableau
    \/ RunNextScript
    \/ StopPipeline

NextJoin == RunAll

SpecJoin == InitJoin /\ [][NextJoin]_vars

Joined == pc = "04_done" /\ master_dataset # None
MasterTable == Val(master_dataset)
MasterRows == {MasterTable[n] : n \in 1..Len(MasterTable)}

LongForm(i) == NormalizedIdentifier(goodreads[i].isbn13)
ShortForm(i) == NormalizedIdentifier(goodreads[i].isbn)

\* the long form when it normalizes, the short form otherwise
PreferredIdentifier(i) == IF LongForm(i) # None THEN LongForm(i) ELSE ShortForm(i)

\* the catalog record a joined row shows, told by its title
RecordOf(m) == CHOOSE i \in 1..Len(goodreads) : m.title = Some(TitleOf(i))

\* the aggregate with key k is attached to the joined row m
Attached(m, k) ==
    \E a \in AggregateRows :
        /\ Some(a.isbn) = k
        /\ m.bc_rating_count = Some(a.bc_rating_count)
        /\ m.bc_rating = Some(a.bc_rating_normalized)

MaxScoringRows == 2

ScoringBooks == <<POTTER, ISBN10, ISBN13>>

\* <<average_rating, ratings_count>> of a raw catalog row
ScoringProfiles ==
    { <<Number(4), Number(0)>>, <<Number(4), Number(9)>>, <<Number(4), Number(499)>>,
      <<Number(4), Number(500)>>, <<Number(2), Number(99)>>, <<Number(0), Unparseable>> }

ScoringRows ==
    { RawRow(0, None, None, None, Some(<<"H", "e", "r", "b", "e", "r", "t">>),
             profile[1], profile[2], Number(300), Some(publisher)) :
        profile \in ScoringProfiles,
        publisher \in {<<"P", "e", "n", "g", "u", "i", "n">>, <<"A", "c", "m", "e", " ", "P", "r", "e", "s", "s">>} }

ScoringFrames(n) ==
    { [i \in 1..Len(f) |->
          [f[i] EXCEPT !.isbn = Some(ScoringBooks[((i - 1) % Len(ScoringBooks)) + 1]),
                       !.title = Some(TitleOf(i))]] :
        f \in Frames(ScoringRows, n) }

\* MIN_RATING_COUNT events for one book whose scores sum to total
ScoredEvents(isbn, total) ==
    [j \in 1..MIN_RATING_COUNT |->
        Event(j, Some(isbn),
              (total \div MIN_RATING_COUNT)
                 + (IF j <= total % MIN_RATING_COUNT THEN 1 ELSE 0))]

\* the totals that give the rescaled means 2.95, 3.0, 3.95 and 4.0
ScoreTotals == {59, 60, 79, 80}

ScoringEvents ==
    {<<>>}
      \cup {ScoredEvents(POTTER, total) : total \in ScoreTotals}
      \cup {ScoredEvents(POTTER, 90) \o [j \in 1..3 |-> Event(j, Some(ISBN10), 9)]}

InitScoring ==
    /\ pc = "run_all"
    /\ input = None
    /\ output = None
    /\ goodreads \in ScoringFrames(MaxScoringRows)
    /\ bc_ratings \in ScoringEvents
    /\ bc_users = <<>>
    /\ NewDirectory

NextScoring == RunAll

SpecScoring == InitScoring /\ [][NextScoring]_vars

\* the cleaned catalog and the aggregates that stage 04 has read
CleanedRows == {Val(goodreads_final)[n] : n \in 1..Len(Val(goodreads_final))}

\* the aggregate whose key is the identifier of the catalog record g
AggregateOf(g) == {a \in AggregateRows : Some(a.isbn) = g.isbn}

\* the joined rows that show the catalog record g
JoinedRowsOf(g) == {m \in MasterRows : m.title = g.title}

\* C13: a catalog record is in the joined table if and only if it is
\* flagged or an aggregate matched it: no joined row has the flag false and
\* no aggregate, and no flagged or matched record is missing.
C13_RetainedIffFlaggedOrMatched ==
    Joined =>
      /\ \A m \in MasterRows : m.is_uk_publisher \/ m.bc_rating # None
      /\ \A g \in CleanedRows :
            (JoinedRowsOf(g) # {}) <=> (g.is_uk_publisher \/ AggregateOf(g) # {})

\* a joined table with a row that is matched and not flagged, of a catalog
\* that has a record neither flagged nor matched
C13_Witness ==
    /\ Joined
    /\ \E m \in MasterRows : ~m.is_uk_publisher /\ m.bc_rating # None
    /\ \E g \in CleanedRows : ~g.is_uk_publisher /\ AggregateOf(g) = {}

\* the cleaned catalog records that the joined row m shows
CleanedOf(m) == {g \in CleanedRows : g.title = m.title}

\* the category that the claim gives a record with n supporting events of
\* total score t and c reviews: the rescaled mean t / (2 n) is >= 4.0 when
\* t >= 8 n, and < 3.0 when t < 6 n
CategoryByPriority(n, t, c) ==
    IF n < 10 THEN "Average"
    ELSE IF t >= 8 * n /\ c < 500 THEN "Hidden Gem"
    ELSE IF t >= 8 * n /\ c >= 500 THEN "Popular Favorite"
    ELSE IF t < 6 * n THEN "Underperformer"
    ELSE "Average"

\* C14: the category of every joined row is one of the four, decided in
\* priority order on the rescaled aggregate mean m and the catalog review
\* count c: m >= 4.0 and c < 500 Hidden Gem, else m >= 4.0 and c >= 500
\* Popular Favorite, else m < 3.0 Underperformer, else Average; 4.0 counts
\* as >= 4.0 and 3.0 as not < 3.0; without an aggregate it is Average.
C14_CategoryByPriority ==
    Joined =>
      \A m \in MasterRows :
         /\ m.book_category \in {"Hidden Gem", "Popular Favorite", "Underperformer", "Average"}
         /\ m.bc_rating = None => m.book_category = "Average"
         /\ \A g \in CleanedOf(m) :
               m.book_category =
                  CategoryByPriority(Cardinality(Supporting(Val(g.isbn))),
                                     ScoreTotal(Supporting(Val(g.isbn))),
                                     g.goodreads_review_count)

\* a joined table with a Popular Favorite whose rescaled mean is exactly 4.0
\* and whose review count is exactly 500, and a row without an aggregate
C14_Witness ==
    /\ Joined
    /\ \E m \in MasterRows :
          /\ m.bc_rating = Some(Frac(4, 1))
          /\ m.goodreads_review_count = 500
          /\ m.book_category = "Popular Favorite"
    /\ \E m \in MasterRows : m.bc_rating = None /\ m.book_category = "Average"

\* C15: the rating gap of every joined row is the rescaled aggregate mean
\* minus the catalog rating when an aggregate is attached, and null exactly
\* when none is; a catalog record whose identity has fewer than 10
\* supporting events (3, say) shows a null aggregate rating, count,
\* standard deviation and gap.  With n supporting events of total score t
\* the rescaled mean is t / (2 n).
C15_GapOfAttachedAggregate ==
    Joined =>
      \A m \in MasterRows :
         /\ m.rating_gap = None <=> m.bc_rating = None
         /\ \A g \in CleanedOf(m) :
               LET n == Cardinality(Supporting(Val(g.isbn)))
                   t == ScoreTotal(Supporting(Val(g.isbn)))
               IN IF n >= 10
                  THEN /\ m.bc_rating_count = Some(n)
                       /\ m.rating_gap # None
                       /\ Val(m.rating_gap).num * 2 * n
                             = (t - 2 * n * Val(g.goodreads_rating)) * Val(m.rating_gap).den
                  ELSE /\ m.bc_rating = None
                       /\ m.bc_rating_count = None
                       /\ m.bc_rating_stddev_squared = None
                       /\ m.rating_gap = None

\* a joined table with a row whose record has 3 supporting events, and a row
\* with a gap above zero
C15_Witness ==
    /\ Joined
    /\ \E m \in MasterRows : \E g \in CleanedOf(m) :
          /\ Cardinality(Supporting(Val(g.isbn))) = 3
          /\ m.rating_gap = None
    /\ \E m \in MasterRows : m.rating_gap # None /\ Val(m.rating_gap).num > 0

\* the product rating * log(argument) is 0
IsZero(score) == score.rating = 0 \/ score.argument = 1

\* C16: the engagement score of every joined row is null if and only if the
\* catalog rating is null, and otherwise the catalog rating multiplied by
\* the natural logarithm of (catalog review count + 1), so that a record
\* with zero reviews gets the score 0.  A product with another logarithm
\* equals the one with the natural logarithm only when both are 0.
C16_RatingTimesNaturalLog ==
    Joined =>
      \A m \in MasterRows :
         /\ m.engagement_score = None <=> m.goodreads_rating = None
         /\ \A score \in m.engagement_score :
               /\ score.rating = Val(m.goodreads_rating)
               /\ score.argument = m.goodreads_review_count + 1
               /\ score.log = "ln" \/ IsZero(score)
               /\ m.goodreads_review_count = 0 => IsZero(score)

\* r1 * log(a1) >= r2 * log(a2), for ratings r >= 0 and arguments a >= 1:
\* with g a common divisor of the ratings, a1 ^ (r1 / g) >= a2 ^ (r2 / g)
ScoreGeq(x, y) ==
    IF x.rating = 0 /\ y.rating = 0 THEN TRUE
    ELSE LET g == GCD(x.rating, y.rating)
         IN Pow(x.argument, x.rating \div g) >= Pow(y.argument, y.rating \div g)

\* C17: the joined output is ordered by engagement score descending, rows
\* with a null score after all others: of two consecutive rows, the later
\* one has a null score or both have one and the earlier is >= the later.
C17_DescendingNullsLast ==
    Joined =>
      \A n \in 1..(Len(MasterTable) - 1) :
         \/ MasterTable[n + 1].engagement_score = None
         \/ /\ MasterTable[n].engagement_score # None
            /\ ScoreGeq(Val(MasterTable[n].engagement_score),
                        Val(MasterTable[n + 1].engagement_score))

\* a joined table whose first row is the second record of the catalog, with
\* a score above the score of the row after it
C17_Witness ==
    /\ Joined
    /\ Len(MasterTable) >= 2
    /\ MasterTable[1].title = Some(TitleOf(2))
    /\ MasterTable[2].title = Some(TitleOf(1))
    /\ ~ScoreGeq(Val(MasterTable[2].engagement_score),
                 Val(MasterTable[1].engagement_score))

(***************************************************************************)
(* Runs of run_all.py, one after the other in the same directory: the     *)
(* processed files and revenueedge.db stay between the runs, the raw       *)
(* datasets change.  The catalog has one flagged record, the events give   *)
(* the first book an aggregate or are too few for one, the actors give it  *)
(* a cohort aggregate or none, and data/raw is missing, complete, or lacks *)
(* one dataset.                                                            *)
(***************************************************************************)
MaxPipelineRuns == 2

PipelineCatalogs ==
    { << RawRow(1, Some(isbn), None, Some(TitleOf(1)), Some(<<"H", "e", "r", "b", "e", "r", "t">>),
                Number(4), Number(9), Number(300), Some(<<"P", "e", "n", "g", "u", "i", "n">>)) >> :
        isbn \in {POTTER, ISBN10} }

\* too few events for an aggregate, or MIN_RATING_COUNT events
PipelineEvents ==
    {[j \in 1..3 |-> Event(j, Some(POTTER), 8)], ScoredEvents(POTTER, 80)}

\* one actor who rated nothing, or MIN_COHORT_COUNT actors who did
PipelineActors ==
    {<<User(MIN_RATING_COUNT + 1, Number(30))>>,
     [j \in 1..MIN_COHORT_COUNT |-> User(j, Number(30))]}

RawDirectories ==
    {None, Some(RAW_FILES), Some(RAW_FILES \ {"books.csv"}), Some(RAW_FILES \ {"BX-Users.csv"})}

InitPipeline ==
    /\ pc = "run_all"
    /\ input = None
    /\ output = None
    /\ goodreads \in PipelineCatalogs
    /\ bc_ratings \in PipelineEvents
    /\ bc_users \in PipelineActors
    /\ raw_files \in RawDirectories
    /\ FirstRun

\* run_all.py is started again, after the raw datasets have changed
NewRun ==
    /\ pc \in {"finished", "stopped"}
    /\ runs < MaxPipelineRuns
    /\ runs' = runs + 1
    /\ pc' = "run_all"
    /\ success_count' = 0
    /\ goodreads' \in PipelineCatalogs
    /\ bc_ratings' \in PipelineEvents
    /\ bc_users' \in PipelineActors
    /\ raw_files' \in RawDirectories
    /\ UNCHANGED <<input, output, goodreads_final, bc_aggregated_filtered,
                   master_dataset, bc_users_clean, demographic_insights, store>>

NextPipeline == RunAll \/ NewRun

SpecPipeline == InitPipeline /\ [][NextPipeline]_vars

\* C18: run_all runs the six steps in the order 01..06; step k starts only
\* after steps 1..k-1 have each exited successfully; after the first step
\* that fails (script file missing, or exit status other than 0, as of a
\* stage whose raw input is missing) no later step runs; the completed
\* count is the number of steps that ran successfully.
C18_FailFast ==
    /\ [](\A k \in 1..6 : pc \in {START[k], DONE[k], FAILED[k]} => success_count = k - 1)
    /\ [](pc = "finished" => success_count = 6)
    /\ [][/\ \A k \in 1..6 :
               /\ (pc' = START[k] /\ pc # START[k]) =>
                     pc = (IF k = 1 THEN "run_all" ELSE DONE[k - 1])
               /\ pc = FAILED[k] => (pc' = "stopped" /\ success_count' = k - 1)
               /\ pc = DONE[k] => success_count' = k
          /\ pc = "stopped" => pc' = "run_all"
          /\ pc' = "stopped" => success_count' < 6]_vars

\* a run stopped after two steps because stage 03 lacks a raw dataset
C18_Witness ==
    /\ pc = "stopped"
    /\ success_count = 2
    /\ raw_files # None
    /\ ~Exists("BX-Users.csv")

\* the joined table is one that the query gives on the tables of the store
JoinedFrom(db, joined) ==
    \E result \in sql_query(db.books, db.community_ratings) : joined = Some(result)

\* C19: a stage completes and writes its full output, or it ends with a
\* failure status and the run is aborted: stage 04 without one of its input
\* tables (cleaned catalog, rating aggregates, actors, cohort aggregates),
\* or with a join query that fails, exits with a status other than 0 and
\* writes no joined table; no stage reports success without having written
\* its outputs in the run, so that no later stage reads incomplete data or
\* the joined table of an earlier run.
C19_OutputWrittenOrRunAborted ==
    [][/\ (pc = "02_start" /\ pc' = "02_done") =>
             goodreads_final' = Some(clean_goodreads(goodreads))
       /\ (pc = "03_start" /\ pc' = "03_done") =>
             /\ bc_aggregated_filtered' = Some(clean_bookcrossing(bc_ratings))
             /\ bc_users_clean' = Some(clean_users(bc_users))
             /\ demographic_insights' = Some(cohort_insights(bc_ratings, bc_users))
       /\ pc = "04_start" =>
             \/ pc' = "04_failed" /\ master_dataset' = master_dataset
             \/ /\ pc' = "04_done"
                /\ None \notin {goodreads_final, bc_aggregated_filtered,
                                bc_users_clean, demographic_insights}
                /\ store' # None
                /\ JoinedFrom(Val(store'), master_dataset')]_vars

SameNumberBooks == <<POTTER, PADDED, ISBN10>>

\* MIN_RATING_COUNT events for the first book of books that is in K, one
\* more for each next one
EventsAbout(books, K) ==
    Flatten([b \in 1..Len(books) |->
        IF books[b] \in K
        THEN [j \in 1..(MIN_RATING_COUNT + b - 1) |-> Event(j, Some(books[b]), 7 + b)]
        ELSE <<>>])

InitAmbiguity ==
    /\ pc = "run_all"
    /\ input = None
    /\ output = None
    /\ goodreads \in JoinFrames(MaxJoinRows)
    /\ bc_ratings \in {EventsAbout(SameNumberBooks, K) :
                          K \in SUBSET {POTTER, PADDED, ISBN10}}
    /\ bc_users = <<>>
    /\ NewDirectory

NextAmbiguity == RunAll

SpecAmbiguity == InitAmbiguity /\ [][NextAmbiguity]_vars

\* no two rows of the table have the same value in the column
UniqueIn(table, column(_)) ==
    \A i, j \in 1..Len(table) : column(table[i]) = column(table[j]) => i = j

EquivalenceRows ==
    { RawRow(0, isbn, isbn13, None, Some(<<"H", "e", "r", "b", "e", "r", "t">>),
             Number(4), Number(9), Number(300), Some(publisher)) :
        isbn \in {None, Some(POTTER), Some(ISBN10)},
        isbn13 \in {None, Some(PADDED)},
        publisher \in {<<"P", "e", "n", "g", "u", "i", "n">>, <<"A", "c", "m", "e", " ", "P", "r", "e", "s", "s">>} }

EquivalenceFrames(n) ==
    { [i \in 1..Len(f) |-> [f[i] EXCEPT !.title = Some(TitleOf(i))]] :
        f \in Frames(EquivalenceRows, n) }

InitEquivalence ==
    /\ pc = "run_all"
    /\ input = None
    /\ output = None
    /\ goodreads \in EquivalenceFrames(MaxJoinRows)
    /\ bc_ratings \in {EventsAbout(SameNumberBooks, K) :
                          K \in SUBSET {POTTER, PADDED, ISBN10}}
    /\ bc_users = <<>>
    /\ NewDirectory

NextEquivalence == RunAll

SpecEquivalence == InitEquivalence /\ [][NextEquivalence]_vars

\* the joined table attaches the aggregate a to the catalog record g; the
\* count of an aggregate tells its key
AttachedTo(g, a) ==
    \E m \in MasterRows :
        m.title = g.title /\ m.bc_rating_count = Some(a.bc_rating_count)

\* the raw identifiers of the catalog and of the events
IdentifiersRead ==
    {goodreads[i].isbn : i \in 1..Len(goodreads)}
       \cup {goodreads[i].isbn13 : i \in 1..Len(goodreads)}
       \cup {bc_ratings[j].ISBN : j \in 1..Len(bc_ratings)}

=============================================================================
